---- MODULE Spec2Model ----
(***************************************************************************)
(* mp3hash: hashing the audio payload of a file while skipping ID3 tags.   *)
(*                                                                         *)
(* The model follows src/mp3hash.py (Python 2).  Every top-level call of   *)
(* the library (mp3hash, TaggedFile(...), an attribute access on a         *)
(* TaggedFile, TaggedFile.hash, hashfile) and every run of a command line  *)
(* (src/cli.py, src/mp3hash.py as a script) is one action; the functions   *)
(* they run are operators that thread the file handle, the hasher and the  *)
(* raised exception through the same statements as the code.               *)
(*                                                                         *)
(* Files are not held byte by byte (the block size of hashfile is 512 KiB).*)
(* A file is its size, the values of the bytes the tag parser inspects     *)
(* (literal header / marker bytes, `fill' for the other inspected          *)
(* offsets), and the position of its audio region.  What a hasher is fed   *)
(* is kept as the list of byte ranges it was given, named by origin        *)
(* (before the audio, in the audio, after it); a digest is the pair of the *)
(* algorithm and that list with adjacent ranges joined, i.e. the hash is   *)
(* taken to be injective on the byte stream.                               *)
(***************************************************************************)
EXTENDS Integers, Sequences, FiniteSets, TLC

VARIABLES song,     \* description of the file stored at path "song1"
          tagged,   \* the caller's TaggedFile instance (NoInstance if none)
          handles,  \* the file objects that call used, in opening order
          ret       \* the call that just ended and how (NoCall between calls)

vars == <<song, tagged, handles, ret>>

-----------------------------------------------------------------------------
(* Bounds of the model *)

\* the largest audio payload holds MaxBlocks full hashing blocks
MaxBlocks == 2

\* a tag body is stored in full only when it is shorter than MaxTagBody bytes
MaxTagBody == 1000

-----------------------------------------------------------------------------
(* Python values: None, bool, int and the (start, end) tuple, in one shape *)

None == [t |-> "None", a |-> 0, b |-> 0]

PyBool(x) == [t |-> "bool", a |-> IF x THEN 1 ELSE 0, b |-> 0]

PyInt(n) == [t |-> "int", a |-> n, b |-> 0]

PyTuple(x, y) == [t |-> "tuple", a |-> x, b |-> y]

\* the string a command line option holds: the decimal numeral of n
PyStr(n) == [t |-> "str", a |-> n, b |-> 1]

\* int(v) of such a string (optparse type=int)
ParseInt(v) == IF v.t = "str" THEN PyInt(v.a) ELSE v

\* Python 2 ordering `v <= n' for an int n: None sorts below every number
\* and a string above every number
LessEq(v, n) ==
    CASE v.t = "None" -> TRUE
      [] v.t = "str"  -> FALSE
      [] OTHER        -> v.a <= n

\* truth value of a Python object (None, False and 0 are false)
Truthy(v) == v.t # "None" /\ (v.t = "tuple" \/ v.a # 0)

\* Python 2 ordering `n < v' for an int n: None sorts below every number
LessThan(n, v) == IF v.t = "None" THEN FALSE ELSE n < v.a

Min(x, y) == IF x <= y THEN x ELSE y

Max(x, y) == IF x >= y THEN x ELSE y

-----------------------------------------------------------------------------
(* Byte strings the code compares against *)

TAG == <<84, 65, 71>>

TAGPLUS == <<84, 65, 71, 43>>

ID3 == <<73, 68, 51>>

\* struct.unpack('>b'): one signed byte
SignedByte(x) == IF x >= 128 THEN x - 256 ELSE x

\* struct.unpack('>i'): four bytes, big endian, signed 32 bit
SignedInt32(bs) ==
    LET top == IF bs[1] >= 128 THEN bs[1] - 256 ELSE bs[1]
    IN  ((top * 256 + bs[2]) * 256 + bs[3]) * 256 + bs[4]

\* x & mask for a Python int x in -128..127 and a one-bit mask below 256:
\* two's complement, so the bit of x mod 256
BitSet(x, mask) == (((x + 256) % 256) \div mask) % 2 = 1

-----------------------------------------------------------------------------
(* Files *)

NoBytes == [o \in {} |-> 0]

\* A file laid out as: ID3v2 header `hdr' (0 or 10 bytes), `bodylen' bytes of
\* tag body (and footer), extended header `ext' (0 or 10 bytes) with `extlen'
\* bytes after it, `alen' bytes of audio, then the 227 byte 'TAG+' block and
\* the 128 byte 'TAG' block when present.
MakeFile(hdr, bodylen, ext, extlen, alen, fill, v1ext, v1) ==
    LET extat == Len(hdr) + bodylen
        pre   == extat + Len(ext) + extlen
        xat   == pre + alen
        tat   == xat + (IF v1ext THEN 227 ELSE 0)
        size  == tat + (IF v1 THEN 128 ELSE 0)
        offs  == {i - 1 : i \in 1..Len(hdr)}
                 \cup {extat + i - 1 : i \in 1..Len(ext)}
                 \cup (IF v1ext THEN {xat + i - 1 : i \in 1..4} ELSE {})
                 \cup (IF v1 THEN {tat + i - 1 : i \in 1..3} ELSE {})
    IN  [size   |-> size,
         lit    |-> [o \in offs |->
                       IF o < Len(hdr) THEN hdr[o + 1]
                       ELSE IF o >= extat /\ o < extat + Len(ext)
                            THEN ext[o - extat + 1]
                       ELSE IF v1ext /\ o >= xat /\ o < xat + 4
                            THEN TAGPLUS[o - xat + 1]
                       ELSE TAG[o - tat + 1]],
         fill   |-> fill,
         astart |-> pre,
         aend   |-> xat]

\* the copy of a file with every tag region removed: the audio alone
Strip(f) ==
    [size |-> f.aend - f.astart, lit |-> NoBytes, fill |-> f.fill,
     astart |-> 0, aend |-> f.aend - f.astart]

\* the value of the byte at offset o
Byte(f, o) == IF o \in DOMAIN f.lit THEN f.lit[o] ELSE f.fill

-----------------------------------------------------------------------------
(* The file system: what is stored at each path *)

Paths == {"song1", "song2", "locked", "adir", "nofile"}

\* "regular"; "locked": a regular file the process may not read;
\* "directory"; "missing": nothing at that path
Kind(p) ==
    CASE p = "song1"  -> "regular"
      [] p = "song2"  -> "regular"
      [] p = "locked" -> "locked"
      [] p = "adir"   -> "directory"
      [] OTHER        -> "missing"

\* "song2" is the copy of "song1" with its tags stripped
FileAt(s, p) == IF p = "song2" THEN Strip(s) ELSE s

\* os.path.exists in place of os.path.isfile: a directory passes
isfileExists(p) == Kind(p) # "missing"

\* os.path.isfile
isfile(p) == Kind(p) \in {"regular", "locked"}

\* whether open(path, 'rb') succeeds; it raises IOError otherwise
CanOpen(p) == Kind(p) = "regular"

-----------------------------------------------------------------------------
(* File objects: st is "None" (no object), "open" or "closed" *)

NoFile == [st |-> "None", pos |-> 0]

OpenFile == [st |-> "open", pos |-> 0]

Close(h) == [h EXCEPT !.st = "closed"]

\* the result of a statement: the exception it raised ("" if none), its
\* value, and the file object afterwards
Res(exc, val, h) == [exc |-> exc, val |-> val, h |-> h]

\* file.seek(off): a negative absolute offset is IOError (EINVAL)
SeekSet(h, off) ==
    IF off < 0 THEN Res("IOError", None, h)
    ELSE Res("", None, [h EXCEPT !.pos = off])

\* file.seek(off, 2): relative to the end of the file
SeekEnd(f, h, off) == SeekSet(h, f.size + off)

\* how many bytes file.read(n) returns at the current position
Avail(f, h, n) == Max(0, Min(n, f.size - h.pos))

\* the bytes file.read(n) returns (short or empty at the end of the file)
ReadBytes(f, h, n) == [i \in 1..Avail(f, h, n) |-> Byte(f, h.pos + i - 1)]

\* the file object after file.read(n)
AfterRead(f, h, n) == [h EXCEPT !.pos = h.pos + Avail(f, h, n)]

-----------------------------------------------------------------------------
(* class TaggedFile *)

attrs == <<"has_id3v1", "has_id3v1ext", "id3v1_size", "id3v1ext_size",
           "id3v1_totalsize", "has_id3v2", "has_id3v2ext", "id3v2_size",
           "id3v2ext_size", "id3v2_totalsize", "startbyte", "endbyte",
           "musiclimits">>

AttrNames == {attrs[i] : i \in 1..Len(attrs)}

\* taginfo = dict(zip(self.attrs, (None,) * len(self.attrs)))
EmptyTaginfo == [k \in AttrNames |-> None]

\* no TaggedFile has been constructed.  Besides the attributes of the
\* object, an instance carries two observations of its history: `runs', how
\* many times __getinfo ran on it, and `early', the pairs <<reader, field>>
\* of properties that read a field of attrs still holding its initial None.
NoInstance ==
    [path |-> "", filesize |-> 0, hasinfo |-> FALSE,
     taginfo |-> EmptyTaginfo, file |-> NoFile, runs |-> 0, early |-> {}]

\* TaggedFile.__init__; hasinfo is `self.taginfo is not None'
NewTaggedFile(s, p) ==
    [path |-> p, filesize |-> FileAt(s, p).size, hasinfo |-> FALSE,
     taginfo |-> EmptyTaginfo, file |-> NoFile, runs |-> 0, early |-> {}]

\* self.<key> for a key of attrs while taginfo is set: the cached entry
Cached(self, key) == self.taginfo[key]

IsNum(v) == v.t \in {"int", "bool"}

has_id3v1(s, self) ==
    LET f  == FileAt(s, self.path)
        sk == SeekEnd(f, self.file, -128)
    IN  IF self.filesize < 128 THEN Res("", PyBool(FALSE), self.file)
        ELSE IF sk.exc # "" THEN sk
        ELSE Res("", PyBool(ReadBytes(f, sk.h, 3) = TAG), AfterRead(f, sk.h, 3))

has_id3v1ext(s, self) ==
    LET f  == FileAt(s, self.path)
        sk == SeekEnd(f, self.file, -(227 + 128))
    IN  IF self.filesize < 128 + 227 THEN Res("", PyBool(FALSE), self.file)
        ELSE IF sk.exc # "" THEN sk
        ELSE Res("", PyBool(ReadBytes(f, sk.h, 4) = TAGPLUS),
                 AfterRead(f, sk.h, 4))

id3v1ext_size(s, self) ==
    IF Truthy(Cached(self, "has_id3v1ext"))
    THEN Res("", PyInt(227), self.file)
    ELSE Res("", PyInt(0), self.file)

id3v1_size(s, self) ==
    IF Truthy(Cached(self, "has_id3v1"))
    THEN Res("", PyInt(128), self.file)
    ELSE Res("", PyInt(0), self.file)

id3v1_totalsize(s, self) ==
    LET x == Cached(self, "id3v1_size")
        y == Cached(self, "id3v1ext_size")
    IN  IF IsNum(x) /\ IsNum(y) THEN Res("", PyInt(x.a + y.a), self.file)
        ELSE Res("TypeError", None, self.file)

has_id3v2(s, self) ==
    LET f  == FileAt(s, self.path)
        sk == SeekSet(self.file, 0)
    IN  IF self.filesize < 10 THEN Res("", PyBool(FALSE), self.file)
        ELSE Res("", PyBool(ReadBytes(f, sk.h, 3) = ID3), AfterRead(f, sk.h, 3))

has_id3v2ext(s, self) ==
    LET f     == FileAt(s, self.path)
        sk    == SeekSet(self.file, 5)
        data  == ReadBytes(f, sk.h, 1)
        flags == SignedByte(data[1])
    IN  IF LessThan(self.filesize, Cached(self, "id3v2_size"))
        THEN Res("", PyBool(FALSE), self.file)
        ELSE IF Len(data) # 1
        THEN Res("struct.error", None, AfterRead(f, sk.h, 1))
        ELSE Res("", PyBool(BitSet(flags, 64)), AfterRead(f, sk.h, 1))

id3v2_size(s, self) ==
    LET f    == FileAt(s, self.path)
        sk   == SeekSet(self.file, 6)
        data == ReadBytes(f, sk.h, 4)
    IN  IF ~Truthy(Cached(self, "has_id3v2")) THEN Res("", PyInt(0), self.file)
        ELSE IF Len(data) # 4
        THEN Res("struct.error", None, AfterRead(f, sk.h, 4))
        ELSE Res("", PyInt(SignedInt32(data) + 10), AfterRead(f, sk.h, 4))

\* Past the two guards the method never returns: seek raises IOError on a
\* negative offset, unpack raises struct.error on a short read, and
\* `flags, = struct.unpack('>bb', ...)' unpacks two values into one name.
id3v2ext_size(s, self) ==
    LET f   == FileAt(s, self.path)
        at  == Cached(self, "id3v2_size")
        sk  == SeekSet(self.file, at.a)
        h4  == AfterRead(f, sk.h, 4)
        h6  == AfterRead(f, h4, 2)
    IN  IF ~Truthy(Cached(self, "has_id3v2"))
           \/ ~Truthy(Cached(self, "has_id3v2ext"))
        THEN Res("", PyInt(0), self.file)
        ELSE IF ~IsNum(at) THEN Res("TypeError", None, self.file)
        ELSE IF sk.exc # "" THEN sk
        ELSE IF Len(ReadBytes(f, sk.h, 4)) # 4 THEN Res("struct.error", None, h4)
        ELSE IF Len(ReadBytes(f, h4, 2)) # 2 THEN Res("struct.error", None, h6)
        ELSE Res("ValueError", None, h6)

id3v2_totalsize(s, self) ==
    LET x == Cached(self, "id3v2_size")
        y == Cached(self, "id3v2ext_size")
    IN  IF IsNum(x) /\ IsNum(y) THEN Res("", PyInt(x.a + y.a), self.file)
        ELSE Res("TypeError", None, self.file)

startbyte(s, self) == Res("", Cached(self, "id3v2_totalsize"), self.file)

endbyte(s, self) ==
    LET f  == FileAt(s, self.path)
        n  == Cached(self, "id3v1_totalsize")
        sk == SeekEnd(f, self.file, -n.a)
    IN  IF ~IsNum(n) THEN Res("TypeError", None, self.file)
        ELSE IF sk.exc # "" THEN sk
        ELSE Res("", PyInt(sk.h.pos), sk.h)

musiclimits(s, self) ==
    LET x == Cached(self, "startbyte")
        y == Cached(self, "endbyte")
    IN  IF IsNum(x) /\ IsNum(y) THEN Res("", PyTuple(x.a, y.a), self.file)
        ELSE Res("TypeError", None, self.file)

\* object.__getattribute__(self, attr): run the property
Property(s, self, key) ==
    CASE key = "has_id3v1"       -> has_id3v1(s, self)
      [] key = "has_id3v1ext"    -> has_id3v1ext(s, self)
      [] key = "id3v1_size"      -> id3v1_size(s, self)
      [] key = "id3v1ext_size"   -> id3v1ext_size(s, self)
      [] key = "id3v1_totalsize" -> id3v1_totalsize(s, self)
      [] key = "has_id3v2"       -> has_id3v2(s, self)
      [] key = "has_id3v2ext"    -> has_id3v2ext(s, self)
      [] key = "id3v2_size"      -> id3v2_size(s, self)
      [] key = "id3v2ext_size"   -> id3v2ext_size(s, self)
      [] key = "id3v2_totalsize" -> id3v2_totalsize(s, self)
      [] key = "startbyte"       -> startbyte(s, self)
      [] key = "endbyte"         -> endbyte(s, self)
      [] OTHER                   -> musiclimits(s, self)

\* the fields of attrs the property `key' reads (self.<field>), following
\* its branches
Reads(self, key) ==
    CASE key = "id3v1ext_size"   -> {"has_id3v1ext"}
      [] key = "id3v1_size"      -> {"has_id3v1"}
      [] key = "id3v1_totalsize" -> {"id3v1_size", "id3v1ext_size"}
      [] key = "has_id3v2ext"    -> {"id3v2_size"}
      [] key = "id3v2_size"      -> {"has_id3v2"}
      [] key = "id3v2ext_size"   ->
            IF ~Truthy(Cached(self, "has_id3v2")) THEN {"has_id3v2"}
            ELSE IF ~Truthy(Cached(self, "has_id3v2ext"))
            THEN {"has_id3v2", "has_id3v2ext"}
            ELSE {"has_id3v2", "has_id3v2ext", "id3v2_size"}
      [] key = "id3v2_totalsize" -> {"id3v2_size", "id3v2ext_size"}
      [] key = "startbyte"       -> {"id3v2_totalsize"}
      [] key = "endbyte"         -> {"id3v1_totalsize"}
      [] key = "musiclimits"     -> {"startbyte", "endbyte"}
      [] OTHER                   -> {}

\* the reads of property `key' that find the None taginfo starts with
Early(self, key) ==
    {<<key, k>> : k \in {x \in Reads(self, key) : Cached(self, x) = None}}

\* self.taginfo[attr] = object.__getattribute__(self, attr): the instance and
\* the exception after the property ended as r
Assigned(self, attr, r) ==
    IF r.exc # ""
    THEN [self |-> [self EXCEPT !.file = r.h,
                                !.early = @ \cup Early(self, attr)],
          exc |-> r.exc]
    ELSE [self |-> [self EXCEPT !.file = r.h, !.taginfo[attr] = r.val,
                                !.early = @ \cup Early(self, attr)],
          exc |-> ""]

\* TaggedFile.__getinfo from the i-th attribute on: compute every attribute
\* of attrs in order, then close the file.  An exception raised by a property
\* leaves the loop with the file still open and taginfo filled up to that
\* attribute.  (Each step is bound to its value before the next one runs.)
RECURSIVE ComputeAttrs(_, _, _)
ComputeAttrs(s, self, i) ==
    IF i > Len(attrs)
    THEN [self |-> [self EXCEPT !.file = NoFile], exc |-> "",
          h |-> Close(self.file)]
    ELSE CHOOSE out \in
            { IF a.exc # ""
              THEN [self |-> a.self, exc |-> a.exc, h |-> a.self.file]
              ELSE ComputeAttrs(s, a.self, i + 1) :
                a \in { Assigned(me, attrs[i], r) :
                          me \in {self}, r \in {Property(s, self, attrs[i])} } } :
            TRUE

getinfo(s, self) ==
    IF ~CanOpen(self.path)
    THEN [self |-> self, exc |-> "IOError", h |-> NoFile]
    ELSE ComputeAttrs(s, [self EXCEPT !.file = OpenFile, !.hasinfo = TRUE,
                                      !.taginfo = EmptyTaginfo,
                                      !.runs = @ + 1], 1)

\* the result of an attribute access: the instance afterwards, the exception
\* raised, the value, and the file object __getinfo opened (NoFile if none)
Got(self, exc, val, h) == [self |-> self, exc |-> exc, val |-> val, h |-> h]

\* return self.taginfo[key], once __getinfo ended as g
Fetched(g, key) ==
    IF g.exc # "" THEN Got(g.self, g.exc, None, g.h)
    ELSE Got(g.self, "", g.self.taginfo[key], g.h)

\* TaggedFile.__getattribute__ for a key of attrs
getattribute(s, self, key) ==
    IF self.hasinfo THEN Got(self, "", self.taginfo[key], NoFile)
    ELSE Fetched(getinfo(s, self), key)

\* self.filesize - x - y, for the two attribute accesses x and y
Difference(x, y) ==
    IF ~IsNum(x.val) \/ ~IsNum(y.val)
    THEN Got(x.self, "TypeError", None, x.h)
    ELSE Got(x.self, "", PyInt(x.self.filesize - x.val.a - y.val.a), x.h)

\* the rest of music_size once self.id3v1_totalsize ended as x
LessTags(s, x) ==
    IF x.exc # "" THEN x
    ELSE Difference(x, getattribute(s, x.self, "id3v2_totalsize"))

\* TaggedFile.music_size, which is not in attrs and is computed at each access
music_size(s, self) == LessTags(s, getattribute(s, self, "id3v1_totalsize"))

-----------------------------------------------------------------------------
(* Hashing *)

blocksize == 524288

\* the hash names the callers choose from (hashlib.algorithms)
Algorithms == {"sha1", "md5"}

\* A stretch of bytes is <<origin, from, to>>: origin "head" (bytes before the
\* audio, offsets from the start of the file), "audio" (offsets from the start
\* of the audio) or "tail" (bytes after the audio, offsets from its end).
Stretches(f, a, b) ==
    SelectSeq(<<  <<"head", a, Min(b, f.astart)>>,
                  <<"audio", Max(a, f.astart) - f.astart,
                             Min(b, f.aend) - f.astart>>,
                  <<"tail", Max(a, f.aend) - f.aend, b - f.aend>>  >>,
              LAMBDA p : p[2] < p[3])

\* join stretches that continue one another, so that the same byte stream
\* fed in different pieces is the same data
RECURSIVE Join(_)
Join(ps) ==
    IF Len(ps) < 2 THEN ps
    ELSE IF ps[1][1] = ps[2][1] /\ ps[1][3] = ps[2][2]
    THEN Join(<< <<ps[1][1], ps[1][2], ps[2][3]>> >> \o Tail(Tail(ps)))
    ELSE <<ps[1]>> \o Join(Tail(ps))

RECURSIVE Concat(_, _)
Concat(f, fed) ==
    IF fed = <<>> THEN <<>>
    ELSE Stretches(f, fed[1][1], fed[1][2]) \o Concat(f, Tail(fed))

\* hasher.hexdigest() after the updates `fed' (each a byte range <<a, b>>
\* of file f) of a hasher made by hashlib.new(alg)
Digest(alg, f, fed) == [alg |-> alg, data |-> Join(Concat(f, fed))]

NoDigest == [alg |-> "", data |-> <<>>]

\* the range of bytes file.read(n) returns
Block(f, h, n) == <<h.pos, h.pos + Avail(f, h, n)>>

\* for i in xrange(nblocks): hasher.update(block); block = ofile.read(blocksize)
RECURSIVE HashBlocks(_, _, _, _, _)
HashBlocks(f, h, fed, block, n) ==
    IF n <= 0 THEN [h |-> h, fed |-> fed, block |-> block]
    ELSE HashBlocks(f, AfterRead(f, h, blocksize), Append(fed, block),
                    Block(f, h, blocksize), n - 1)

\* the result of a hashing call: exception, digest returned, the file object
\* afterwards, and the byte ranges the hasher was updated with
Hashed(exc, dig, h, fed) == [exc |-> exc, dig |-> dig, h |-> h, fed |-> fed]

\* hashfile(ofile, start, end, alg, maxbytes) on an open file object of f
hashfile(f, ofile, start, end, alg, maxbytes) ==
    LET end1  == IF Truthy(maxbytes) THEN Min(end, start + maxbytes.a) ELSE end
        sk    == SeekSet(ofile, start)
        size  == end1 - start
        nblocks == size \div blocksize
        firstblocksize == size % blocksize
        fed1  == IF firstblocksize > 0
                 THEN <<Block(f, sk.h, firstblocksize)>> ELSE <<>>
        blk1  == IF firstblocksize > 0
                 THEN Block(f, sk.h, firstblocksize) ELSE <<0, 0>>
        h1    == IF firstblocksize > 0
                 THEN AfterRead(f, sk.h, firstblocksize) ELSE sk.h
        lp    == HashBlocks(f, h1, fed1, blk1, nblocks)
    IN  IF sk.exc # "" THEN Hashed(sk.exc, NoDigest, ofile, <<>>)
        ELSE Hashed("", Digest(alg, f, lp.fed), Close(lp.h), lp.fed)

\* the check written `maxbytes < 0': zero passes
BadMaxbytesStrict(maxbytes) == maxbytes.t # "None" /\ maxbytes.a < 0

\* maxbytes is not None and maxbytes <= 0
BadMaxbytes(maxbytes) == maxbytes.t # "None" /\ maxbytes.a <= 0

\* a returned hexdigest string, as a Python value (the digest is in `dig')
HexString == [t |-> "str", a |-> 0, b |-> 0]

\* an entry of the record of file objects: who opened it and how it was left
Handle(by, h) == [by |-> by, st |-> h.st, pos |-> h.pos]

HandleLog(by, h) == IF h.st = "None" THEN <<>> ELSE <<Handle(by, h)>>

\* how a call ended: the instance it worked on, the exception raised ("" if
\* it returned), the value returned, the digest if it is one, and the file
\* objects it opened
Ended(self, exc, val, dig, hs) ==
    [self |-> self, exc |-> exc, val |-> val, dig |-> dig, hs |-> hs]

\* the file object of `with open(self.path, 'rb') as ofile', closed on exit
Ofile(h) == <<Handle("hash", Close(h))>>

\* return hashfile(ofile, start, end, alg, maxbytes), which ended as hf
Returned(g, hf) ==
    IF hf.exc # ""
    THEN Ended(g.self, hf.exc, None, NoDigest,
               Ofile(hf.h) \o HandleLog("getinfo", g.h))
    ELSE Ended(g.self, "", HexString, hf.dig,
               Ofile(hf.h) \o HandleLog("getinfo", g.h))

\* the body of the with block, once self.musiclimits ended as g: IOError is
\* logged and None returned, any other exception propagates, and a
\* musiclimits of None cannot be unpacked into start, end
Limits(s, alg, maxbytes, g) ==
    IF g.exc = "IOError"
    THEN Ended(g.self, "", None, NoDigest,
               Ofile(OpenFile) \o HandleLog("getinfo", g.h))
    ELSE IF g.exc # ""
    THEN Ended(g.self, g.exc, None, NoDigest,
               Ofile(OpenFile) \o HandleLog("getinfo", g.h))
    ELSE IF g.val.t # "tuple"
    THEN Ended(g.self, "TypeError", None, NoDigest,
               Ofile(OpenFile) \o HandleLog("getinfo", g.h))
    ELSE Returned(g, hashfile(FileAt(s, g.self.path), OpenFile,
                              g.val.a, g.val.b, alg, maxbytes))

\* TaggedFile.hash(alg, maxbytes)
hash(s, self, alg, maxbytes) ==
    IF ~CanOpen(self.path) THEN Ended(self, "IOError", None, NoDigest, <<>>)
    ELSE Limits(s, alg, maxbytes, getattribute(s, self, "musiclimits"))

\* mp3hash(path, alg, maxbytes): alg is not passed on to TaggedFile.hash,
\* whose own default 'sha1' applies
mp3hash(s, path, alg, maxbytes) ==
    IF BadMaxbytes(maxbytes)
    THEN Ended(NoInstance, "ValueError", None, NoDigest, <<>>)
    ELSE IF isfile(path)
    THEN hash(s, NewTaggedFile(s, path), "sha1", maxbytes)
    ELSE Ended(NoInstance, "", None, NoDigest, <<>>)

-----------------------------------------------------------------------------
(* The command lines: src/cli.py and the script part of src/mp3hash.py *)

InsufficientMsg == "Insufficient arguments"

InvalidMaxbytesMsg ==
    "Invalid value for --maxbytes it should be a positive integer"

UnknownAlgorithmMsg == "Unkown algorithm"

NotAFileMsg == "does not exist or is not a regular file"

\* how a run of a command ended: exit status, what it wrote (standard output
\* and standard error together), the exception that ended it ("" if none),
\* the last digest printed and the file objects it opened
Exited(status, out, exc, dig, hs) ==
    [status |-> status, out |-> out, exc |-> exc, dig |-> dig, hs |-> hs]

\* the options of a command line
Options(maxbytes, algorithm, list_algorithms) ==
    [maxbytes |-> maxbytes, algorithm |-> algorithm,
     list_algorithms |-> list_algorithms]

\* src/cli.py, error(msg, code=1): print(msg); sys.exit(code)
cli_error(out, msg, code) == Exited(code, Append(out, msg), "", NoDigest, <<>>)

\* src/cli.py main, the loop over the files.  error() exits at the first
\* argument that is not a file; for a file, mp3hash is called with the
\* keyword `hasher', which mp3hash(path, alg, maxbytes) does not take:
\* TypeError before anything is opened, and the interpreter exits with 1.
cli_files(s, opts, args) ==
    IF args = <<>> THEN Exited(0, <<>>, "", NoDigest, <<>>)
    ELSE IF ~isfile(args[1]) THEN cli_error(<<>>, NotAFileMsg, 1)
    ELSE Exited(1, <<"Traceback">>, "TypeError", NoDigest, <<>>)

\* src/cli.py main; --maxbytes is declared type=int
cli_main(s, opts, args) ==
    IF args = <<>> /\ ~opts.list_algorithms
    THEN cli_error(<<"help">>, InsufficientMsg, 2)
    ELSE IF opts.maxbytes.t # "None" /\ LessEq(ParseInt(opts.maxbytes), 0)
    THEN cli_error(<<"help", "()">>, InvalidMaxbytesMsg, 1)
    ELSE IF opts.list_algorithms
    THEN Exited(0, <<"algorithms">>, "", NoDigest, <<>>)
    ELSE IF opts.algorithm \notin Algorithms
    THEN cli_error(<<>>, UnknownAlgorithmMsg, 2)
    ELSE cli_files(s, opts, args)

\* src/mp3hash.py, error(msg): logging.error(msg); sys.exit(), status 0
error(out, dig, hs, msg) == Exited(0, Append(out, msg), "", dig, hs)

\* print tagfile.hash(opts.algorithm), once it ended as e; an exception
\* that nothing catches ends the run with status 1
Printed(acc, e) ==
    IF e.exc # ""
    THEN Exited(1, Append(acc.out, "Traceback"), e.exc, acc.dig,
                acc.hs \o e.hs)
    ELSE Exited(0, Append(acc.out, IF e.val = None THEN "None" ELSE "digest"),
                "", e.dig, acc.hs \o e.hs)

\* src/mp3hash.py main, the loop over the files: maxbytes is not passed on
RECURSIVE main_files(_, _, _, _)
main_files(s, opts, args, acc) ==
    IF args = <<>> THEN acc
    ELSE IF ~isfile(args[1]) THEN error(acc.out, acc.dig, acc.hs, NotAFileMsg)
    ELSE CHOOSE r \in
            { IF p.exc # "" THEN p ELSE main_files(s, opts, Tail(args), p) :
                p \in { Printed(acc, e) :
                          e \in {hash(s, NewTaggedFile(s, args[1]),
                                      opts.algorithm, None)} } } : TRUE

\* src/mp3hash.py main
main(s, opts, args) ==
    IF opts.list_algorithms THEN Exited(0, <<"algorithms">>, "", NoDigest, <<>>)
    ELSE IF opts.algorithm \notin Algorithms
    THEN error(<<>>, NoDigest, <<>>, UnknownAlgorithmMsg)
    ELSE main_files(s, opts, args, Exited(0, <<>>, "", NoDigest, <<>>))

\* src/mp3hash.py run as a script (-o and -v not given); --maxbytes is
\* stored as the string typed
script(s, opts, args) ==
    IF args = <<>> /\ ~opts.list_algorithms
    THEN error(<<"help", "">>, NoDigest, <<>>, InsufficientMsg)
    ELSE IF opts.maxbytes.t # "None" /\ LessEq(opts.maxbytes, 0)
    THEN error(<<"help", "">>, NoDigest, <<>>, InvalidMaxbytesMsg)
    ELSE main(s, opts, args)

-----------------------------------------------------------------------------
(* The files and arguments the calls are tried on *)

\* ID3v2 size fields are written "synchsafe": seven bits a byte
Synchsafe(sz) ==
    (((sz[1] % 128) * 128 + (sz[2] % 128)) * 128 + (sz[3] % 128)) * 128
    + (sz[4] % 128)

\* major version, flags and the four size bytes of the ID3v2 headers tried
HeaderFields ==
    { <<3, 0, <<0, 0, 0, 5>>>>,
      <<3, 0, <<0, 0, 2, 1>>>>,
      <<4, 16, <<0, 0, 2, 1>>>>,
      <<4, 16, <<0, 0, 0, 5>>>>,
      <<3, 64, <<0, 0, 0, 5>>>>,
      <<3, 0, <<8, 4, 2, 1>>>>,
      <<3, 0, <<128, 128, 128, 128>>>>,
      <<3, 0, <<255, 255, 255, 255>>>> }

Header(hf) == ID3 \o <<hf[1], 0, hf[2]>> \o hf[3]

\* an extended header: size 6, no CRC, no padding
ExtHeader == <<0, 0, 0, 6, 0, 0, 0, 0, 0, 0>>

AudioSizes ==
    {0, 5, 9, 127, 300} \cup {k * blocksize : k \in 1..MaxBlocks}
    \cup {MaxBlocks * blocksize + 7}

\* files without an ID3v2 tag
PlainSongs ==
    { MakeFile(<<>>, 0, <<>>, 0, n, 10, x[1], x[2]) :
        n \in AudioSizes, x \in {<<FALSE, FALSE>>, <<FALSE, TRUE>>,
                                 <<TRUE, TRUE>>} }
    \cup { MakeFile(<<>>, 0, <<>>, 0, n, 79, FALSE, FALSE) : n \in {5, 9, 300} }

\* the headers tried on files that hold the whole tag they declare
SmallHeaderFields == {hf \in HeaderFields : Synchsafe(hf[3]) < MaxTagBody}

\* files whose ID3v2 tag is as long as its header says
TaggedSongs ==
    { MakeFile(Header(hf),
               Synchsafe(hf[3]) + (IF hf[1] = 4 /\ hf[2] = 16 THEN 10 ELSE 0),
               IF hf[2] = 64 THEN ExtHeader ELSE <<>>,
               IF hf[2] = 64 THEN 6 ELSE 0,
               n, 10, v, v) :
        hf \in SmallHeaderFields, n \in {0, 300, MaxBlocks * blocksize + 7},
        v \in BOOLEAN }

\* files cut right after the ID3v2 header, whatever size it declares
TruncatedSongs ==
    { MakeFile(Header(hf), 0, <<>>, 0, n, 10, FALSE, v) :
        hf \in HeaderFields, n \in {0, 300}, v \in BOOLEAN }

Songs == PlainSongs \cup TaggedSongs \cup TruncatedSongs

MaxbytesValues ==
    {None, PyInt(-15), PyInt(0), PyInt(7), PyInt(blocksize),
     PyInt(blocksize + 7)}

AccessKeys == AttrNames \cup {"music_size"}

\* what --maxbytes is given on a command line (None: not given)
MaxbytesOptions == {None, PyStr(-5), PyStr(0), PyStr(7)}

\* what --algorithm is given
AlgorithmOptions == Algorithms \cup {"I am not a hash"}

\* the file arguments of a command line
ArgLists == {<<>>, <<"song1", "song2">>} \cup {<<p>> : p \in Paths}

-----------------------------------------------------------------------------
(* The calls *)

NoCall ==
    [op |-> "", path |-> "", key |-> "", alg |-> "", maxbytes |-> None,
     start |-> 0, end |-> 0, exc |-> "", val |-> None, dig |-> NoDigest,
     self |-> NoInstance, args |-> <<>>, out |-> <<>>, status |-> 0]

Init ==
    /\ song \in Songs
    /\ tagged = NoInstance
    /\ handles = <<>>
    /\ ret = NoCall

\* tagged = TaggedFile(p); os.path.getsize raises OSError on a missing path
Construct(p) ==
    /\ ret.op = ""
    /\ tagged' = IF Kind(p) = "missing" THEN tagged
                 ELSE NewTaggedFile(song, p)
    /\ handles' = <<>>
    /\ ret' = [NoCall EXCEPT !.op = "TaggedFile", !.path = p,
                 !.exc = IF Kind(p) = "missing" THEN "OSError" ELSE "",
                 !.self = tagged']
    /\ UNCHANGED song

\* tagged.<key>
Access(key) ==
    /\ ret.op = ""
    /\ tagged.path # ""
    /\ \E g \in {IF key = "music_size" THEN music_size(song, tagged)
                 ELSE getattribute(song, tagged, key)} :
           /\ tagged' = g.self
           /\ handles' = HandleLog("getinfo", g.h)
           /\ ret' = [NoCall EXCEPT !.op = "getattr", !.path = tagged.path,
                        !.key = key, !.exc = g.exc, !.val = g.val,
                        !.self = g.self]
    /\ UNCHANGED song

\* tagged.hash(alg, maxbytes)
Hash(alg, maxbytes) ==
    /\ ret.op = ""
    /\ tagged.path # ""
    /\ \E e \in {hash(song, tagged, alg, maxbytes)} :
           /\ tagged' = e.self
           /\ handles' = e.hs
           /\ ret' = [NoCall EXCEPT !.op = "hash", !.path = tagged.path,
                        !.alg = alg, !.maxbytes = maxbytes, !.exc = e.exc,
                        !.val = e.val, !.dig = e.dig, !.self = e.self]
    /\ UNCHANGED song

\* mp3hash(p, alg, maxbytes); its TaggedFile is dropped when it ends
Mp3hash(p, alg, maxbytes) ==
    /\ ret.op = ""
    /\ \E e \in {mp3hash(song, p, alg, maxbytes)} :
           /\ handles' = e.hs
           /\ ret' = [NoCall EXCEPT !.op = "mp3hash", !.path = p,
                        !.alg = alg, !.maxbytes = maxbytes, !.exc = e.exc,
                        !.val = e.val, !.dig = e.dig, !.self = e.self]
    /\ UNCHANGED <<song, tagged>>

\* hashfile(open("song1", 'rb'), start, end, alg, maxbytes)
Hashfile(start, end, alg, maxbytes) ==
    /\ ret.op = ""
    /\ \E e \in {hashfile(song, OpenFile, start, end, alg, maxbytes)} :
           /\ handles' = <<Handle("caller", e.h)>>
           /\ ret' = [NoCall EXCEPT !.op = "hashfile", !.path = "song1",
                        !.alg = alg, !.maxbytes = maxbytes, !.start = start,
                        !.end = end, !.exc = e.exc,
                        !.val = IF e.exc = "" THEN HexString ELSE None,
                        !.dig = e.dig]
    /\ UNCHANGED <<song, tagged>>

\* the command of src/cli.py is run
RunCli(opts, args) ==
    /\ ret.op = ""
    /\ \E e \in {cli_main(song, opts, args)} :
           /\ handles' = e.hs
           /\ ret' = [NoCall EXCEPT !.op = "cli", !.alg = opts.algorithm,
                        !.maxbytes = opts.maxbytes, !.args = args,
                        !.exc = e.exc, !.dig = e.dig, !.out = e.out,
                        !.status = e.status]
    /\ UNCHANGED <<song, tagged>>

\* src/mp3hash.py is run as a script
RunScript(opts, args) ==
    /\ ret.op = ""
    /\ \E e \in {script(song, opts, args)} :
           /\ handles' = e.hs
           /\ ret' = [NoCall EXCEPT !.op = "script", !.alg = opts.algorithm,
                        !.maxbytes = opts.maxbytes, !.args = args,
                        !.exc = e.exc, !.dig = e.dig, !.out = e.out,
                        !.status = e.status]
    /\ UNCHANGED <<song, tagged>>

\* the caller is done with the result and with the file objects of the call,
\* and goes on to its next call
Continue ==
    /\ ret.op # ""
    /\ ret' = NoCall
    /\ handles' = <<>>
    /\ UNCHANGED <<song, tagged>>

Next ==
    \/ \E p \in {"song1", "nofile"} : Construct(p)
    \/ \E key \in AccessKeys : Access(key)
    \/ \E alg \in Algorithms, m \in MaxbytesValues : Hash(alg, m)
    \/ \E p \in Paths, alg \in Algorithms, m \in MaxbytesValues :
          Mp3hash(p, alg, m)
    \/ \E r \in {<<0, song.size>>, <<song.astart, song.aend>>,
                 <<song.astart, song.astart>>},
          alg \in Algorithms, m \in MaxbytesValues :
          Hashfile(r[1], r[2], alg, m)
    \/ \E m \in MaxbytesOptions, alg \in AlgorithmOptions, l \in BOOLEAN,
          args \in ArgLists : RunCli(Options(m, alg, l), args)
    \/ \E m \in MaxbytesOptions, alg \in AlgorithmOptions, l \in BOOLEAN,
          args \in ArgLists : RunScript(Options(m, alg, l), args)
    \/ Continue

Spec == Init /\ [][Next]_vars

-----------------------------------------------------------------------------
(* Properties *)

\* a call returned a hexdigest
ReturnedDigest(r) == r.exc = "" /\ r.val = HexString

\* C1: the digest mp3hash returns for a file is the digest it returns for the
\* copy of the file without its tags, whatever the algorithm and the (valid)
\* maxbytes asked for.  (Stated for the files whose tags are as long as they
\* declare, and for the calls that return a digest for both.)
C1_SameDigestAsStripped ==
    (/\ ret.op = "mp3hash"
     /\ ret.path = "song1"
     /\ ~BadMaxbytes(ret.maxbytes)
     /\ song \in PlainSongs \cup TaggedSongs)
    => \A e \in {mp3hash(song, "song2", ret.alg, ret.maxbytes)} :
          (ReturnedDigest(ret) /\ ReturnedDigest(e)) => ret.dig = e.dig

\* C2: whenever musiclimits is produced, 0 <= startbyte <= endbyte <= filesize.
C2_LimitsWithinFile ==
    (ret.op = "getattr" /\ ret.key = "musiclimits" /\ ret.val.t = "tuple")
    => /\ 0 <= ret.val.a
       /\ ret.val.a <= ret.val.b
       /\ ret.val.b <= ret.self.filesize

\* the music size of the instance a call worked on
MusicSize(self) ==
    self.filesize - self.taginfo["id3v1_totalsize"].a
                  - self.taginfo["id3v2_totalsize"].a

\* C3: with 0 < maxbytes < music_size, the digest mp3hash returns is the
\* digest of the bytes [startbyte, startbyte + maxbytes) and of nothing else.
C3_FirstMaxbytesOfMusic ==
    (/\ ret.op = "mp3hash"
     /\ ReturnedDigest(ret)
     /\ ret.maxbytes.t = "int"
     /\ 0 < ret.maxbytes.a
     /\ ret.maxbytes.a < MusicSize(ret.self))
    => ret.dig.data =
          Join(Stretches(FileAt(song, ret.path),
                         ret.self.taginfo["startbyte"].a,
                         ret.self.taginfo["startbyte"].a + ret.maxbytes.a))

\* C4: mp3hash with maxbytes <= 0 raises ValueError for every path; it
\* returns no digest and opens no file.
C4_NonPositiveMaxbytesRaises ==
    (ret.op = "mp3hash" /\ ret.maxbytes.t = "int" /\ ret.maxbytes.a <= 0)
    => /\ ret.exc = "ValueError"
       /\ ret.val = None
       /\ ret.dig = NoDigest
       /\ handles = <<>>

\* C4 witness: mp3hash was called on the song with maxbytes 0 and raised
\* ValueError.
C4_Witness ==
    /\ ret.op = "mp3hash"
    /\ ret.path = "song1"
    /\ ret.maxbytes = PyInt(0)
    /\ ret.exc = "ValueError"

\* C5: hashfile and TaggedFile.hash called with maxbytes <= 0 fail with an
\* invalid-argument error and hash nothing.
C5_HasherRejectsNonPositive ==
    (/\ ret.op \in {"hashfile", "hash"}
     /\ ret.maxbytes.t = "int"
     /\ ret.maxbytes.a <= 0)
    => /\ ret.exc = "ValueError"
       /\ ret.dig = NoDigest

\* C6: the digest mp3hash returns is computed with the algorithm asked for.
C6_AlgorithmUsed ==
    (ret.op = "mp3hash" /\ ReturnedDigest(ret)) => ret.dig.alg = ret.alg

\* C7: on a file shorter than 10 bytes every attribute access completes
\* without raising, and finds no tag: has_id3v1 and has_id3v2 False, every
\* tag size 0, startbyte 0 and endbyte the file size.
C7_SmallFileHasNoTags ==
    (ret.op = "getattr" /\ ret.key \in AttrNames /\ ret.self.filesize < 10)
    => /\ ret.exc = ""
       /\ ret.self.taginfo["has_id3v1"] = PyBool(FALSE)
       /\ ret.self.taginfo["has_id3v2"] = PyBool(FALSE)
       /\ \A k \in {"id3v1_size", "id3v1ext_size", "id3v1_totalsize",
                    "id3v2_size", "id3v2ext_size", "id3v2_totalsize",
                    "startbyte"} : ret.self.taginfo[k] = PyInt(0)
       /\ ret.self.taginfo["endbyte"] = PyInt(ret.self.filesize)
       /\ ret.self.taginfo["musiclimits"] = PyTuple(0, ret.self.filesize)

\* the bytes of file f at offsets [at, at + n) inside the file
BytesAt(f, at, n) == [i \in 1..n |-> Byte(f, at + i - 1)]

\* what the ID3v1 attributes of file f are to be
ExpectedV1(f, key) ==
    LET v1  == f.size >= 128 /\ BytesAt(f, f.size - 128, 3) = TAG
        ext == f.size >= 355 /\ BytesAt(f, f.size - 355, 4) = TAGPLUS
    IN  CASE key = "has_id3v1"     -> PyBool(v1)
          [] key = "has_id3v1ext"  -> PyBool(ext)
          [] key = "id3v1_size"    -> PyInt(IF v1 THEN 128 ELSE 0)
          [] key = "id3v1ext_size" -> PyInt(IF ext THEN 227 ELSE 0)
          [] OTHER -> PyInt((IF v1 THEN 128 ELSE 0) + (IF ext THEN 227 ELSE 0))

\* C8: reading has_id3v1, has_id3v1ext, id3v1_size, id3v1ext_size or
\* id3v1_totalsize of a TaggedFile gives the value the trailer of the file
\* determines ('TAG' at filesize-128, 'TAG+' at filesize-355).
C8_Id3v1Sizing ==
    (/\ ret.op = "getattr"
     /\ ret.key \in {"has_id3v1", "has_id3v1ext", "id3v1_size",
                     "id3v1ext_size", "id3v1_totalsize"})
    => /\ ret.exc = ""
       /\ ret.val = ExpectedV1(FileAt(song, ret.path), ret.key)

\* C9: id3v2_size of a file of at least 10 bytes that starts with 'ID3' is 10
\* plus the synchsafe value of header bytes 6..9, plus 10 when the version
\* byte is 4 and flag bit 0x10 is set; it is 0 for a file without 'ID3'.
C9_Id3v2Size ==
    (ret.op = "getattr" /\ ret.key = "id3v2_size" /\ ret.exc = "")
    => \A f \in {FileAt(song, ret.path)} :
          ret.val =
             IF f.size >= 10 /\ BytesAt(f, 0, 3) = ID3
             THEN PyInt(10 + Synchsafe(BytesAt(f, 6, 4))
                        + (IF Byte(f, 3) = 4 /\ BitSet(Byte(f, 5), 16)
                           THEN 10 ELSE 0))
             ELSE PyInt(0)

\* C10 as stated: mp3hash with a valid maxbytes on a path that is not a
\* readable regular file fails with a file-not-found / IO error.
C10_NotAFileRaises ==
    (/\ ret.op = "mp3hash"
     /\ ~BadMaxbytes(ret.maxbytes)
     /\ Kind(ret.path) # "regular")
    => ret.exc \in {"IOError", "OSError"}

\* C10 as the code has it: on a path that is not a regular file (missing, or
\* a directory) mp3hash returns None without raising and without opening
\* anything; on a regular file that cannot be opened for reading the IOError
\* of open() propagates.
C10_NotAFileReturnsNone ==
    (ret.op = "mp3hash" /\ ~BadMaxbytes(ret.maxbytes))
    => /\ Kind(ret.path) \in {"missing", "directory"}
            => (ret.exc = "" /\ ret.val = None /\ ret.dig = NoDigest
                /\ handles = <<>>)
       /\ Kind(ret.path) = "locked"
            => (ret.exc = "IOError" /\ ret.dig = NoDigest)

\* C10 witness: mp3hash on a directory, with a positive maxbytes, returned None
C10_Witness ==
    /\ ret.op = "mp3hash"
    /\ ret.path = "adir"
    /\ ret.maxbytes = PyInt(7)
    /\ ret.exc = ""
    /\ ret.val = None

-----------------------------------------------------------------------------

\* errno.EINVAL
EINVAL == 22

\* C11: a command line run with --maxbytes N, N <= 0, and file arguments
\* prints a message containing 'Invalid value for --maxbytes', hashes no
\* file and exits with status errno.EINVAL.
C11_CliRejectsNonPositive ==
    (/\ ret.op \in {"cli", "script"}
     /\ ret.maxbytes.t = "str"
     /\ ret.maxbytes.a <= 0
     /\ ret.args # <<>>)
    => /\ \E i \in 1..Len(ret.out) : ret.out[i] = InvalidMaxbytesMsg
       /\ ret.dig = NoDigest
       /\ handles = <<>>
       /\ ret.status = EINVAL

\* C12: for 0 <= start <= end <= filesize and a maxbytes that is absent or
\* positive, hashfile feeds the hasher the bytes [start, effective end) in
\* file order, each once, and leaves the cursor at the effective end: the
\* digest is that of the slice, for every relation of its size to the block
\* size (and the digest of no data, with nothing read, for an empty range).
C12_HashfileFeedsTheRange ==
    (/\ ret.op = "hashfile"
     /\ 0 <= ret.start /\ ret.start <= ret.end /\ ret.end <= song.size
     /\ (ret.maxbytes.t = "None" \/ ret.maxbytes.a > 0))
    => \A stop \in {IF ret.maxbytes.t = "None" THEN ret.end
                    ELSE Min(ret.end, ret.start + ret.maxbytes.a)} :
          /\ ret.exc = ""
          /\ ret.dig = [alg |-> ret.alg,
                        data |-> Join(Stretches(song, ret.start, stop))]
          /\ handles[1].pos = stop

\* C13: hashfile does not close the file object it is given: when it ends
\* the caller's file object is still open.
C13_SourceLeftOpen ==
    ret.op = "hashfile" => handles[1].st = "open"

\* C14: when an attribute access, TaggedFile.hash or mp3hash ends, by a
\* return or by an exception, every file object it opened is closed and the
\* file attribute of the TaggedFile is None.
C14_OpenedHandlesClosed ==
    ret.op \in {"getattr", "hash", "mp3hash"}
    => /\ \A i \in 1..Len(handles) : handles[i].st = "closed"
       /\ ret.self.file = NoFile

\* C15: on an instance, __getinfo computes the fields of attrs at most once
\* (later accesses are served from taginfo), and no property reads a field
\* of attrs before that field was computed.
C15_MemoizedOnceInOrder ==
    ret.op \in {"getattr", "hash", "mp3hash"}
    => /\ ret.self.runs <= 1
       /\ ret.self.early = {}

\* whether file f starts with an ID3v2 header whose flags have bit 0x40
HasExtFlag(f) ==
    f.size >= 10 /\ BytesAt(f, 0, 3) = ID3 /\ BitSet(Byte(f, 5), 64)

\* the total size of the extended header that starts at offset `at' of f
ExtSizeAt(f, at) ==
    SignedInt32(BytesAt(f, at, 4))
    + (IF BitSet(Byte(f, at + 4), 8) THEN 4 ELSE 0)
    + SignedInt32(BytesAt(f, at + 6, 4)) + 10

\* C16: on a file of at least 10 bytes whose tags are as long as they
\* declare, reading has_id3v2ext, id3v2ext_size, id3v2_totalsize or startbyte
\* does not raise; with an ID3v2 tag whose flags have bit 0x40, has_id3v2ext
\* is True and id3v2ext_size is extended size + CRC size + padding + 10 of
\* the extended header at offset id3v2_size; otherwise id3v2ext_size is 0;
\* id3v2_totalsize and startbyte are id3v2_size + id3v2ext_size.
C16_ExtendedHeaderSizing ==
    (/\ ret.op = "getattr"
     /\ ret.key \in {"has_id3v2ext", "id3v2ext_size", "id3v2_totalsize",
                     "startbyte"}
     /\ song \in PlainSongs \cup TaggedSongs
     /\ song.size >= 10)
    => /\ ret.exc = ""
       /\ (ret.key = "has_id3v2ext" /\ HasExtFlag(song))
            => ret.val = PyBool(TRUE)
       /\ ret.key = "id3v2ext_size"
            => ret.val =
                 IF HasExtFlag(song)
                 THEN PyInt(ExtSizeAt(song,
                                      10 + Synchsafe(BytesAt(song, 6, 4))))
                 ELSE PyInt(0)
       /\ ret.key \in {"id3v2_totalsize", "startbyte"}
            => ret.val = PyInt(ret.self.taginfo["id3v2_size"].a
                               + ret.self.taginfo["id3v2ext_size"].a)

====
